---- MODULE Spec2Model ----
(***************************************************************************)
(* Model of the batch scraper of src/scraper.py: LodgifyScraper            *)
(* .scrape_multiple runs one scrape_subdomain unit per URL on a            *)
(* ThreadPoolExecutor; each unit fetches its URL with retries (Playwright  *)
(* or requests), parses the markup and yields one record.                  *)
(***************************************************************************)
EXTENDS Integers, Sequences, FiniteSets, TLC

\* ---------------------------------------------------------------- bounds
MaxUrls == 2
MaxProxies == 2
MaxCallers == 2
MaxCalls == 3
MaxNodes == 2
MaxCount == 2
MaxData == 2
MaxLinks == 16
MaxLangs == 3
MaxRows == 2
MaxRecords == 6
MaxProps == 6
MaxInteractions == 4

\* ------------------------------------------------------ program constants
\* default of the max_retries parameter of both fetch methods
max_retries == 3

\* ----------------------------------------------------------------- inputs
\* Candidate URLs; the last one is not parseable by urllib (unbalanced '[').
GoodUrls == {"https://a.lodgify.com", "https://b.lodgify.com"}
BadUrls == {"https://[bad"}
Urls == GoodUrls \cup BadUrls

RECURSIVE SeqsUpTo(_)
SeqsUpTo(n) == IF n = 0 THEN {<<>>}
               ELSE LET S == SeqsUpTo(n - 1)
                    IN  S \cup {Append(s, x) : s \in {t \in S : Len(t) = n - 1}, x \in Urls}

\* Pool widths tried.
WorkerCounts == {1, 2}

\* What one network attempt can come back with.
Status(c) == [kind |-> "status", code |-> c]
Exc == [kind |-> "exc", code |-> 0]
NoResp == [kind |-> "none", code |-> 0]
Hang == [kind |-> "hang", code |-> 0]
StatusCodes == {200, 402, 404, 429}

\* urlparse(url): raises ValueError on a URL with an unbalanced bracket.
urlparse_raises(url) == url \in BadUrls
netloc(url) == CASE url = "https://a.lodgify.com" -> "a.lodgify.com"
                 [] url = "https://b.lodgify.com" -> "b.lodgify.com"
                 [] OTHER -> ""

\* session.get / page.goto on an unparseable URL raise at once; any other URL
\* can be answered with a status, fail in transport, or never answer. A call
\* that never answers is tried on the first attempt a (a later one hangs alike).
Hangs(a) == IF a = 0 THEN {Hang} ELSE {}
ReqOutcomes(url, a) == IF urlparse_raises(url) THEN {Exc}
                       ELSE {Status(c) : c \in StatusCodes} \cup {Exc} \cup Hangs(a)
PwOutcomes(url, a) == IF urlparse_raises(url) THEN {Exc}
                      ELSE {Status(c) : c \in StatusCodes} \cup {Exc, NoResp} \cup Hangs(a)

VARIABLES
    urls,            \* the list handed to scrape_multiple
    max_workers,     \* width of the pool
    use_playwright,  \* self.use_playwright
    mainpc,          \* position of the thread running scrape_multiple
    results,         \* the list `results` of scrape_multiple
    collected,       \* futures already yielded by as_completed
    progress,        \* the progress reports made so far
    pc,              \* position of each unit (future) of the pool
    attempt,         \* loop variable `attempt` of the unit's fetch
    html,            \* html_content of the unit: TRUE when markup was returned
    future,          \* what the unit's future holds once it is done
    browser,         \* TRUE while a browser launched by the unit is open
    inflight,        \* network calls of the unit that have not resolved
    attempts,        \* network calls the unit has started
    sleeps,          \* backoff sleeps the unit has started
    same,            \* the outcome all resolved attempts of the unit had, if one
    last,            \* outcome of the unit's current attempt once it has resolved
    delays,          \* bases of the backoff sleeps of the unit's fetch, in order
    jitter,          \* jitter of the backoff sleep the unit is in, else 0
    tried,           \* the fetch methods the unit has called
    proxies,         \* self.proxies
    current_proxy_index,  \* self.current_proxy_index
    gpc,             \* position of each caller of _get_next_proxy
    gproxy,          \* the local `proxy` of each caller
    gread,           \* the index each caller read for the increment
    handed,          \* proxies returned so far, in the order the calls returned
    page,            \* the parsed page handed to the extractors
    rec,             \* what scrape_subdomain made of the page
    data,            \* the list handed to process_records
    rows,            \* the list process_records returned
    markup,          \* a page given to the extractors more than once
    runs,            \* what each extraction of the page returned
    given,           \* the records or data frame as handed to a downstream transform
    frame,           \* the same object as it is now
    returned,         \* what the transform returned
    feeds,           \* the host names the certificate logs and the DNS dump list
    discovered,       \* what find_subdomains returned
    scraping_status, \* st.session_state.scraping_status
    scraped_data,    \* st.session_state.scraped_data: -1 for None, else the number of records
    subdomains,      \* st.session_state.subdomains, by its length
    apppc,           \* where the current script run of the app stands
    interactions,     \* how many script runs the user has triggered
    lead,            \* a row of the leads table
    scoring          \* its score and grade, and the score before the last change of the row

vars == <<urls, max_workers, use_playwright, mainpc, results, collected, progress, pc,
          attempt, html, future, browser, inflight, attempts, sleeps, same, last,
          delays, jitter, tried,
          proxies, current_proxy_index, gpc, gproxy, gread, handed,
          page, rec, data, rows, markup, runs,
          given, frame, returned,
          feeds, discovered,
          scraping_status, scraped_data, subdomains, apppc, interactions,
          lead, scoring>>

Units == 1..Len(urls)

NoOutcome == [kind |-> "nooutcome", code |-> 0]
Mixed == [kind |-> "mixed", code |-> 0]
NoFuture == [kind |-> "pending"]

\* history of the outcomes of a fetch: the common outcome so far, or Mixed
SameAfter(s, r) == IF s = NoOutcome \/ s = r THEN r ELSE Mixed

\* --------------------------------------------------------------- records
\* an error record that lacks the 'error' key
CreateErrorRecord_noerror(url, error) ==
    [url |-> url, domain |-> netloc(url), status |-> "failed"]

\* _create_error_record
CreateErrorRecord(url, error) ==
    [url |-> url, domain |-> netloc(url), error |-> error, status |-> "failed"]

\* `'error' in record`
HasError(r) == "error" \in DOMAIN r

\* the dict built by scrape_subdomain on a successful parse
SuccessRecord(url) ==
    [url |-> url, domain |-> netloc(url), status |-> "success"]

FutResult(r) == [kind |-> "result", value |-> r]
FutException == [kind |-> "exception"]

\* `if result:` - a dict is truthy unless empty
Truthy(r) == DOMAIN r # {}

\* ------------------------------------------------------------------ Init
\* The state of the proxy rotation, of the extractors and of the export: the
\* batch run touches none of them.
proxyvars == <<proxies, current_proxy_index, gpc, gproxy, gread, handed>>
extractvars == <<page, rec>>
exportvars == <<data, rows>>
detvars == <<markup, runs>>
framevars == <<given, frame, returned>>
discvars == <<feeds, discovered>>
appvars == <<scraping_status, scraped_data, subdomains, apppc, interactions>>
scorevars == <<lead, scoring>>
downvars == <<detvars, framevars, discvars, appvars, scorevars>>
aside == <<proxyvars, extractvars, exportvars, downvars>>

NoPage == [kind |-> "nopage"]
NoRec == [kind |-> "norec"]
NoRows == <<[kind |-> "norows"]>>

\* no proxies configured (use_proxies=False), nobody calling
ProxyIdle ==
    /\ proxies = <<>>
    /\ current_proxy_index = 0
    /\ gpc = <<>>
    /\ gproxy = <<>>
    /\ gread = <<>>
    /\ handed = <<>>

ExtractIdle == page = NoPage /\ rec = NoRec
ExportIdle == data = <<>> /\ rows = NoRows
NoMarkup == [kind |-> "nomarkup"]
DetIdle == markup = NoMarkup /\ runs = <<>>
FrameIdle == given = [kind |-> "none"] /\ frame = [kind |-> "none"] /\ returned = [fn |-> "none"]
DiscIdle == feeds = [kind |-> "none"] /\ discovered = [finder |-> "none"]
AppIdle == scraping_status = "idle" /\ scraped_data = -1 /\ subdomains = 0 /\ apppc = "waiting" /\ interactions = 0
ScoreIdle == lead = [kind |-> "none"] /\ scoring = [state |-> "none"]
DownIdle == DetIdle /\ FrameIdle /\ DiscIdle /\ AppIdle /\ ScoreIdle

Init ==
    /\ ProxyIdle /\ ExtractIdle /\ ExportIdle /\ DownIdle
    /\ urls \in SeqsUpTo(MaxUrls)
    /\ max_workers \in WorkerCounts
    /\ use_playwright \in BOOLEAN
    /\ mainpc = "idle"
    /\ results = <<>>
    /\ collected = {}
    /\ progress = <<>>
    /\ pc = [u \in Units |-> "new"]
    /\ attempt = [u \in Units |-> 0]
    /\ html = [u \in Units |-> FALSE]
    /\ future = [u \in Units |-> NoFuture]
    /\ browser = [u \in Units |-> FALSE]
    /\ inflight = [u \in Units |-> 0]
    /\ attempts = [u \in Units |-> 0]
    /\ sleeps = [u \in Units |-> 0]
    /\ same = [u \in Units |-> NoOutcome]
    /\ last = [u \in Units |-> NoOutcome]
    /\ delays = [u \in Units |-> <<>>]
    /\ jitter = [u \in Units |-> 0]
    /\ tried = [u \in Units |-> {}]

inputs == <<urls, max_workers, use_playwright, aside>>
mainvars == <<mainpc, results, collected, progress>>
fetchvars == <<attempt, html, browser, inflight, attempts, sleeps, same, last,
               delays, jitter, tried>>

\* ----------------------------------------------------- the worker pool
\* Units a worker thread is executing.
Running == {u \in Units : pc[u] \notin {"new", "queued", "done"}}

\* executor.submit for every URL (the dict comprehension of scrape_multiple)
Submit ==
    /\ mainpc = "idle"
    /\ mainpc' = "collect"
    /\ pc' = [u \in Units |-> "queued"]
    /\ UNCHANGED <<inputs, results, collected, progress, future, fetchvars>>

\* a pool that starts a thread for every submitted unit
WorkerFree_unbounded == TRUE

\* A worker may take a unit when fewer than max_workers are busy.
WorkerFree == Cardinality(Running) < max_workers

\* A free worker takes the oldest queued unit and enters scrape_subdomain,
\* which sleeps the human-like delay.
StartUnit(u) ==
    /\ pc[u] = "queued"
    /\ \A v \in Units : pc[v] = "queued" => u <= v
    /\ WorkerFree
    /\ pc' = [pc EXCEPT ![u] = "delay"]
    /\ UNCHANGED <<inputs, mainvars, future, fetchvars>>

\* a retry loop that stops one iteration early
MayRetry_short(a) == a < max_retries - 2

\* ------------------------------------------------------------- the fetch
\* `attempt < max_retries - 1`: another iteration of the retry loop is left
MayRetry(a) == a < max_retries - 1

\* a requests path that retries every status but 200
RetryableStatus_any(c) == c # 200

\* the statuses _scrape_with_requests retries
RetryableStatus(c) == c \in {403, 429, 500, 502, 503}

\* a retry branch that continues without sleeping
Slept_skipped(n, branch) == n

\* time.sleep(delay) of the retry branches: one more backoff sleep
Slept(n, branch) == IF branch = "sleep" THEN n + 1 ELSE n

\* a backoff whose base does not grow
BackoffBase_const(a) == 1

\* `2 ** attempt`
BackoffBase(a) == 2 ^ a

\* `random.uniform(1, 3)`, in seconds: the two ends of the range
Jitters == {1, 3}

\* `delay = (2 ** attempt) + random.uniform(1, 3)` of a retry branch
Backoff(u, branch) ==
    IF branch = "sleep"
    THEN /\ delays' = [delays EXCEPT ![u] = Append(@, BackoffBase(attempt[u]))]
         /\ \E j \in Jitters : jitter' = [jitter EXCEPT ![u] = j]
    ELSE UNCHANGED <<delays, jitter>>

\* browser.close()
browser_close(b) == FALSE

\* a with block whose exit leaves launched browsers running
sync_playwright_exit_leak(b) == b

\* leaving `with sync_playwright() as p` stops the driver, and with it every
\* browser the driver launched
sync_playwright_exit(b) == FALSE

\* What _scrape_with_requests does with a resolved attempt: "text" returns the
\* markup, "sleep" backs off and continues the loop, "none" returns None.
ReqBranch(r, a) ==
    IF r.kind = "status"
    THEN IF r.code = 200 THEN "text"
         ELSE IF RetryableStatus(r.code)
              THEN (IF MayRetry(a) THEN "sleep" ELSE "none")
              ELSE "none"
    ELSE IF MayRetry(a) THEN "sleep" ELSE "none"

\* What _scrape_with_playwright does with a resolved page.goto: "content"
\* goes on to read the page, "sleep" and "none" as above.
PwBranch(r, a) ==
    IF r.kind = "status" /\ r.code = 200 THEN "content"
    ELSE IF MayRetry(a) THEN "sleep" ELSE "none"

\* The browser after a resolved page.goto: closed by browser.close() on a
\* non-200 or missing response, by the exit of the with block on an exception,
\* still open while the page of a 200 response is read.
PwBrowserAfter(r, b) ==
    IF r.kind = "exc" THEN sync_playwright_exit(b)
    ELSE IF r.kind = "status" /\ r.code = 200 THEN b
    ELSE browser_close(b)

NextPc(branch) == CASE branch = "sleep" -> "backoff"
                    [] branch = "content" -> "content"
                    [] OTHER -> "fetched"

\* One iteration of the retry loop begins: the first after the human-like
\* delay, a later one when the backoff sleep is over.
BeginAttempt(u) ==
    /\ pc[u] \in {"delay", "backoff"}
    /\ attempt' = [attempt EXCEPT ![u] = IF pc[u] = "backoff" THEN @ + 1 ELSE 0]
    /\ jitter' = [jitter EXCEPT ![u] = 0]

\* the attempt that begins has no outcome yet
Pending(l, u) == [l EXCEPT ![u] = NoOutcome]

\* session.get is called
ReqSend(u) ==
    /\ ~use_playwright
    /\ BeginAttempt(u)
    /\ pc' = [pc EXCEPT ![u] = "inflight"]
    /\ inflight' = [inflight EXCEPT ![u] = @ + 1]
    /\ attempts' = [attempts EXCEPT ![u] = @ + 1]
    /\ last' = Pending(last, u)
    /\ tried' = [tried EXCEPT ![u] = @ \cup {"requests"}]
    /\ UNCHANGED <<inputs, mainvars, future, html, browser, sleeps, same, delays>>

\* session.get returns a response or raises (or never does either)
ReqResolve(u, r) ==
    /\ ~use_playwright
    /\ pc[u] = "inflight"
    /\ r \in ReqOutcomes(urls[u], attempt[u])
    /\ IF r = Hang
       THEN /\ pc' = [pc EXCEPT ![u] = "hung"]
            /\ UNCHANGED <<html, inflight, sleeps, same, last, delays, jitter>>
       ELSE LET b == ReqBranch(r, attempt[u])
            IN  /\ pc' = [pc EXCEPT ![u] = NextPc(b)]
                /\ html' = [html EXCEPT ![u] = (b = "text")]
                /\ inflight' = [inflight EXCEPT ![u] = @ - 1]
                /\ sleeps' = [sleeps EXCEPT ![u] = Slept(@, b)]
                /\ Backoff(u, b)
                /\ same' = [same EXCEPT ![u] = SameAfter(@, r)]
                /\ last' = [last EXCEPT ![u] = r]
    /\ UNCHANGED <<inputs, mainvars, future, attempt, browser, attempts, tried>>

\* The attempt enters the with block: chromium.launch, new_context, new_page,
\* page.goto. A call that raises before page.goto resolves the attempt as Exc.
PwLaunch(u) ==
    /\ use_playwright
    /\ BeginAttempt(u)
    /\ pc' = [pc EXCEPT ![u] = "inflight"]
    /\ browser' = [browser EXCEPT ![u] = TRUE]
    /\ inflight' = [inflight EXCEPT ![u] = @ + 1]
    /\ attempts' = [attempts EXCEPT ![u] = @ + 1]
    /\ last' = Pending(last, u)
    /\ tried' = [tried EXCEPT ![u] = @ \cup {"playwright"}]
    /\ UNCHANGED <<inputs, mainvars, future, html, sleeps, same, delays>>

\* page.goto returns a response or None, or raises (or never does either)
PwResolve(u, r) ==
    /\ use_playwright
    /\ pc[u] = "inflight"
    /\ r \in PwOutcomes(urls[u], attempt[u])
    /\ IF r = Hang
       THEN /\ pc' = [pc EXCEPT ![u] = "hung"]
            /\ UNCHANGED <<browser, inflight, sleeps, same, last, delays, jitter>>
       ELSE LET b == PwBranch(r, attempt[u])
            IN  /\ pc' = [pc EXCEPT ![u] = NextPc(b)]
                /\ browser' = [browser EXCEPT ![u] = PwBrowserAfter(r, @)]
                /\ inflight' = [inflight EXCEPT ![u] = @ - 1]
                /\ sleeps' = [sleeps EXCEPT ![u] = Slept(@, b)]
                /\ Backoff(u, b)
                /\ same' = [same EXCEPT ![u] = SameAfter(@, r)]
                /\ last' = [last EXCEPT ![u] = r]
    /\ html' = [html EXCEPT ![u] = FALSE]
    /\ UNCHANGED <<inputs, mainvars, future, attempt, attempts, tried>>

\* After a 200: wait_for_timeout and page.content; ok = neither raises.
PwContent(u, ok) ==
    /\ use_playwright
    /\ pc[u] = "content"
    /\ IF ok
       THEN /\ browser' = [browser EXCEPT ![u] = browser_close(@)]
            /\ html' = [html EXCEPT ![u] = TRUE]
            /\ pc' = [pc EXCEPT ![u] = "fetched"]
            /\ UNCHANGED <<sleeps, same, last, delays, jitter>>
       ELSE LET b == IF MayRetry(attempt[u]) THEN "sleep" ELSE "none"
            IN  /\ browser' = [browser EXCEPT ![u] = sync_playwright_exit(@)]
                /\ html' = [html EXCEPT ![u] = FALSE]
                /\ pc' = [pc EXCEPT ![u] = NextPc(b)]
                /\ sleeps' = [sleeps EXCEPT ![u] = Slept(@, b)]
                /\ Backoff(u, b)
                /\ same' = [same EXCEPT ![u] = SameAfter(@, Exc)]
                /\ last' = [last EXCEPT ![u] = Exc]
    /\ UNCHANGED <<inputs, mainvars, future, attempt, inflight, attempts, tried>>

\* ------------------------------------------------- the rest of the unit
\* What the future of the unit holds when building the error record: the
\* record, or the ValueError of urlparse, which nothing in the unit catches.
ErrorOutcome(url, error) ==
    IF urlparse_raises(url) THEN FutException
    ELSE FutResult(CreateErrorRecord(url, error))

\* scrape_subdomain returns or raises, and its locals are gone.
\* ok = the parse and every extractor return.
\* urlparse(url) of the result dict is inside the try, so its ValueError
\* reaches the except branch, which builds the error record.
UnitOutcome(url, h, ok) ==
    IF ~h THEN ErrorOutcome(url, "All scraping methods failed")
    ELSE IF ok /\ ~urlparse_raises(url) THEN FutResult(SuccessRecord(url))
    ELSE ErrorOutcome(url, "Parsing error")

Finish(u, ok) ==
    /\ pc[u] = "fetched"
    /\ (~html[u] => ok)
    /\ future' = [future EXCEPT ![u] = UnitOutcome(urls[u], html[u], ok)]
    /\ pc' = [pc EXCEPT ![u] = "done"]
    /\ attempt' = [attempt EXCEPT ![u] = 0]
    /\ html' = [html EXCEPT ![u] = FALSE]
    /\ attempts' = [attempts EXCEPT ![u] = 0]
    /\ sleeps' = [sleeps EXCEPT ![u] = 0]
    /\ same' = [same EXCEPT ![u] = NoOutcome]
    /\ last' = [last EXCEPT ![u] = NoOutcome]
    /\ delays' = [delays EXCEPT ![u] = <<>>]
    /\ tried' = [tried EXCEPT ![u] = {}]
    /\ UNCHANGED <<inputs, mainvars, browser, inflight, jitter>>

\* ------------------------------------------------------ scrape_multiple
\* the report of iteration i of the loop: (i + 1) / total, kept as the pair
Report(i, total) == [done |-> i + 1, total |-> total]

\* as_completed yields a finished future; future.result() returns the record,
\* which is appended, or re-raises the unit's exception, which leaves the loop.
\* The progress report follows the append.
Collect(u) ==
    /\ mainpc = "collect"
    /\ pc[u] = "done"
    /\ u \notin collected
    /\ collected' = collected \cup {u}
    /\ IF future[u].kind = "exception"
       THEN /\ mainpc' = "unwinding"
            /\ UNCHANGED <<results, progress>>
       ELSE /\ mainpc' = mainpc
            /\ results' = IF Truthy(future[u].value)
                          THEN Append(results, future[u].value)
                          ELSE results
            /\ progress' = Append(progress, Report(Cardinality(collected), Len(urls)))
    /\ UNCHANGED <<inputs, pc, future, fetchvars>>

\* every future was yielded: the with block ends and the list is returned
Return ==
    /\ mainpc = "collect"
    /\ collected = Units
    /\ mainpc' = "returned"
    /\ UNCHANGED <<inputs, results, collected, progress, pc, future, fetchvars>>

\* the exception leaves the with block: shutdown(wait=True) waits for every
\* unit, queued ones included, then the exception leaves scrape_multiple
Raise ==
    /\ mainpc = "unwinding"
    /\ \A u \in Units : pc[u] = "done"
    /\ mainpc' = "raised"
    /\ UNCHANGED <<inputs, results, collected, progress, pc, future, fetchvars>>

\* any step of the unit u (the unit's disjuncts of Next)
UnitStep(u) ==
    \/ StartUnit(u)
    \/ ReqSend(u)
    \/ \E r \in ReqOutcomes(urls[u], attempt[u]) : ReqResolve(u, r)
    \/ PwLaunch(u)
    \/ \E r \in PwOutcomes(urls[u], attempt[u]) : PwResolve(u, r)
    \/ \E ok \in BOOLEAN : PwContent(u, ok)
    \/ \E ok \in BOOLEAN : Finish(u, ok)

Next ==
    \/ Submit
    \/ \E u \in Units : StartUnit(u)
    \/ \E u \in Units : ReqSend(u)
    \/ \E u \in Units : \E r \in ReqOutcomes(urls[u], attempt[u]) : ReqResolve(u, r)
    \/ \E u \in Units : PwLaunch(u)
    \/ \E u \in Units : \E r \in PwOutcomes(urls[u], attempt[u]) : PwResolve(u, r)
    \/ \E u \in Units : \E ok \in BOOLEAN : PwContent(u, ok)
    \/ \E u \in Units : \E ok \in BOOLEAN : Finish(u, ok)
    \/ \E u \in Units : Collect(u)
    \/ Return
    \/ Raise

Spec == Init /\ [][Next]_vars

\* The batch at rest: no scrape_multiple call is made.
batchvars == <<urls, max_workers, use_playwright, mainvars, pc, future, fetchvars>>
BatchIdle ==
    /\ urls = <<>>
    /\ max_workers = 1
    /\ use_playwright = FALSE
    /\ mainpc = "idle"
    /\ results = <<>>
    /\ collected = {}
    /\ progress = <<>>
    /\ pc = <<>>
    /\ attempt = <<>>
    /\ html = <<>>
    /\ future = <<>>
    /\ browser = <<>>
    /\ inflight = <<>>
    /\ attempts = <<>>
    /\ sleeps = <<>>
    /\ same = <<>>
    /\ last = <<>>
    /\ delays = <<>>
    /\ jitter = <<>>
    /\ tried = <<>>

TypeOK ==
    /\ mainpc \in {"idle", "collect", "unwinding", "returned", "raised"}
    /\ \A u \in Units : pc[u] \in {"new", "queued", "delay", "inflight", "content",
                                   "backoff", "fetched", "hung", "done"}
    /\ collected \subseteq Units

\* ------------------------------------------------- the proxy rotation
\* Worker threads of the pool call _get_next_proxy (one call per attempt of
\* _scrape_with_requests when use_proxies is set). The method reads and writes
\* self.current_proxy_index in separate steps and holds no lock.
Callers == 1..MaxCallers

\* the configured proxies; the i-th is named i
ProxyList(n) == [i \in 1..n |-> i]

ProxyInit ==
    /\ BatchIdle /\ ExtractIdle /\ ExportIdle /\ DownIdle
    /\ proxies \in {ProxyList(n) : n \in 0..MaxProxies}
    /\ current_proxy_index = 0
    /\ gpc = [t \in Callers |-> "idle"]
    /\ gproxy = [t \in Callers |-> 0]
    /\ gread = [t \in Callers |-> 0]
    /\ handed = <<>>

proxyframe == <<batchvars, extractvars, exportvars, downvars, proxies>>

\* `if not self.proxies: return None`
ProxyNone(t) ==
    /\ gpc[t] = "idle"
    /\ proxies = <<>>
    /\ Len(handed) < MaxCalls
    /\ handed' = Append(handed, 0)
    /\ UNCHANGED <<proxyframe, current_proxy_index, gpc, gproxy, gread>>

\* `proxy = self.proxies[self.current_proxy_index]`
ProxyPick(t) ==
    /\ gpc[t] = "idle"
    /\ proxies # <<>>
    /\ Len(handed) < MaxCalls
    /\ gproxy' = [gproxy EXCEPT ![t] = proxies[current_proxy_index + 1]]
    /\ handed' = Append(handed, proxies[current_proxy_index + 1])
    /\ gpc' = [gpc EXCEPT ![t] = "picked"]
    /\ UNCHANGED <<proxyframe, current_proxy_index, gread>>

\* the right-hand side of the assignment loads self.current_proxy_index
ProxyLoad(t) ==
    /\ gpc[t] = "picked"
    /\ gread' = [gread EXCEPT ![t] = current_proxy_index]
    /\ gpc' = [gpc EXCEPT ![t] = "loaded"]
    /\ UNCHANGED <<proxyframe, current_proxy_index, gproxy, handed>>

\* `self.current_proxy_index = (... + 1) % len(self.proxies)`; `return proxy`
ProxyStore(t) ==
    /\ gpc[t] = "loaded"
    /\ current_proxy_index' = (gread[t] + 1) % Len(proxies)
    /\ gpc' = [gpc EXCEPT ![t] = "idle"]
    /\ UNCHANGED <<proxyframe, gproxy, gread, handed>>

ProxyNext ==
    \/ \E t \in Callers : ProxyNone(t)
    \/ \E t \in Callers : ProxyPick(t)
    \/ \E t \in Callers : ProxyLoad(t)
    \/ \E t \in Callers : ProxyStore(t)

ProxySpec == ProxyInit /\ [][ProxyNext]_vars

\* --------------------------------------------------- the extractors
\* A fetched page, reduced to what the extractors of scrape_subdomain look at:
\* its <title>, the nodes that hold an email address (in document order), the
\* outcome of each of the three inventory strategies, whether the visible
\* text holds a booking keyword, and whether an <a href> that names a
\* property cannot be joined to the base URL (href "//[room").
\* the outcome of a strategy that raises, apart from every count
Raises == -1

\* str.lower() on the letters
UpperLetters == <<"A", "B", "C", "D", "E", "F", "G", "H", "I", "J", "K", "L", "M",
                  "N", "O", "P", "Q", "R", "S", "T", "U", "V", "W", "X", "Y", "Z">>
LowerLetters == <<"a", "b", "c", "d", "e", "f", "g", "h", "i", "j", "k", "l", "m",
                  "n", "o", "p", "q", "r", "s", "t", "u", "v", "w", "x", "y", "z">>
LowerChar(c) ==
    IF \E i \in 1..26 : UpperLetters[i] = c
    THEN LowerLetters[CHOOSE i \in 1..26 : UpperLetters[i] = c]
    ELSE c
Lower(str) == [i \in 1..Len(str) |-> LowerChar(str[i])]

\* `sub in str`
Contains(str, sub) ==
    \E i \in 1..(Len(str) - Len(sub) + 1) : SubSeq(str, i, i + Len(sub) - 1) = sub

\* the denylist of _extract_email
spam_tokens == {<<"e", "x", "a", "m", "p", "l", "e">>,
                <<"t", "e", "s", "t">>,
                <<"s", "p", "a", "m">>,
                <<"n", "o", "r", "e", "p", "l", "y">>,
                <<"d", "o", "n", "o", "t", "r", "e", "p", "l", "y">>}

\* Addresses a page may show, as the regular expression would match them.
Sales == <<"s", "a", "l", "e", "s", "@", "b", ".", "i", "o">>
Owner == <<"o", "w", "n", "e", "r", "@", "v", ".", "c", "o">>
NoReply == <<"N", "o", "R", "e", "p", "l", "y", "@", "b", ".", "i", "o">>
Latest == <<"l", "a", "t", "e", "s", "t", "@", "b", ".", "i", "o">>
AtExample == <<"i", "n", "f", "o", "@", "e", "x", "a", "m", "p", "l", "e", ".", "c", "o", "m">>
Addresses == {Sales, Owner, NoReply, Latest, AtExample}

\* <p>addr</p> shows the address; <a href="mailto:addr">Mail us</a> does not.
TextNode(addr) == [kind |-> "text", addr |-> addr]
MailtoNode(addr) == [kind |-> "mailto", addr |-> addr]
Nodes == {TextNode(addr) : addr \in Addresses} \cup {MailtoNode(addr) : addr \in Addresses}
NodeSeqs(n) == UNION {[1..k -> Nodes] : k \in 0..n}

Titles == {"Sunny Villas", "404 Not Found"}
CountOutcomes == (0..MaxCount) \cup {Raises}

\* pages that vary in their addresses, and pages that vary in the rest
EmailPages ==
    [title : {"Sunny Villas"}, nodes : NodeSeqs(MaxNodes), cards : {0}, phrase : {0},
     pagination : {0}, booking : {FALSE}, bad_href : {FALSE}]
CountPages ==
    [title : Titles, nodes : {<<>>, <<TextNode(Sales)>>}, cards : CountOutcomes,
     phrase : CountOutcomes, pagination : CountOutcomes, booking : BOOLEAN,
     bad_href : BOOLEAN]
Pages == EmailPages \cup CountPages

\* the three lambdas of _extract_property_count, in the order of the list
strategies_reordered(p) == <<p.phrase, p.cards, p.pagination>>

strategies(p) == <<p.cards, p.phrase, p.pagination>>

\* the loop of _extract_property_count over strategies[i..]
RECURSIVE FirstPositive(_, _)
FirstPositive(strats, i) ==
    IF i > Len(strats) THEN 0
    ELSE IF strats[i] = Raises THEN FirstPositive(strats, i + 1)
    ELSE IF strats[i] > 0 THEN strats[i]
    ELSE FirstPositive(strats, i + 1)

ExtractPropertyCount(p) == FirstPositive(strategies(p), 1)

\* the addresses re.findall returns on soup.get_text() + str(soup)
GetTextEmails(p) ==
    LET shown == SelectSeq(p.nodes, LAMBDA n : n.kind = "text")
    IN  [i \in 1..Len(shown) |-> shown[i].addr]
StrEmails(p) == [i \in 1..Len(p.nodes) |-> p.nodes[i].addr]
FoundEmails(p) == GetTextEmails(p) \o StrEmails(p)

\* a denylist test that forgets email.lower()
IsSpam_cased(email) == \E spam \in spam_tokens : Contains(email, spam)

\* `any(spam in email.lower() for spam in [...])`
IsSpam(email) == \E spam \in spam_tokens : Contains(Lower(email), spam)

ExtractEmail(p) ==
    LET valid_emails == SelectSeq(FoundEmails(p), LAMBDA email : ~IsSpam(email))
    IN  IF valid_emails # <<>> THEN valid_emails[1] ELSE <<>>

HasBookingEngine(p) == p.booking

\* _extract_property_links: urljoin raises ValueError on the bad href
PropertyLinksRaise(p) == p.bad_href

\* the try block of scrape_subdomain, on the markup of one URL
ParseUrl == "https://a.lodgify.com"
ParsedRecord(url, p) ==
    [url |-> url, domain |-> netloc(url), title |-> p.title,
     property_count |-> ExtractPropertyCount(p), email |-> ExtractEmail(p),
     booking_engine |-> HasBookingEngine(p), status |-> "success"]
ParseOutcome(url, p) ==
    IF PropertyLinksRaise(p) THEN CreateErrorRecord(url, "Parsing error")
    ELSE ParsedRecord(url, p)

ExtractInit ==
    /\ BatchIdle /\ ProxyIdle /\ ExportIdle /\ DownIdle
    /\ page \in Pages
    /\ rec = NoRec

Parse ==
    /\ page # NoPage
    /\ rec = NoRec
    /\ rec' = ParseOutcome(ParseUrl, page)
    /\ UNCHANGED <<batchvars, proxyvars, exportvars, downvars, page>>

ExtractNext == Parse

ExtractSpec == ExtractInit /\ [][ExtractNext]_vars

\* ------------------------------------------------------- the export
\* json_to_csv.py loads the batch that scraper.py saved (scraped_data.json)
\* and turns the records it keeps into rows.
None == "None"

\* record.get(key)
Get(r, key) == IF key \in DOMAIN r THEN r[key] ELSE None

\* records as scrape_subdomain emits them
CustomerPage ==
    [title |-> "Sunny Villas", nodes |-> <<TextNode(Sales)>>, cards |-> 2, phrase |-> 0,
     pagination |-> 0, booking |-> TRUE, bad_href |-> FALSE]
ScraperRecords ==
    {ParsedRecord(u, CustomerPage) : u \in GoodUrls}
    \cup {CreateErrorRecord(u, "All scraping methods failed") : u \in GoodUrls}

\* the same records with a 'belonging' key added to the file
Labelled(r, b) == r @@ ("belonging" :> b)
LabelledRecords ==
    {Labelled(r, b) : r \in ScraperRecords, b \in {"customer", "platform_internal"}}

ExportRecords == ScraperRecords \cup LabelledRecords
DataSeqs(n) == UNION {[1..k -> ExportRecords] : k \in 0..n}

\* the filter at the head of the loop, negated: the record is processed
Kept(r) == ~(Get(r, "status") # "success" \/ Get(r, "belonging") # "customer")

\* the URL and Domain columns of processed_record
ProcessedRecord(r) == [URL |-> Get(r, "url"), Domain |-> Get(r, "domain")]

process_records(d) ==
    LET kept == SelectSeq(d, Kept)
    IN  [i \in 1..Len(kept) |-> ProcessedRecord(kept[i])]

ExportInit ==
    /\ BatchIdle /\ ProxyIdle /\ ExtractIdle /\ DownIdle
    /\ data \in DataSeqs(MaxData)
    /\ rows = NoRows

Export ==
    /\ rows = NoRows
    /\ rows' = process_records(data)
    /\ UNCHANGED <<batchvars, proxyvars, extractvars, downvars, data>>

ExportNext == Export

ExportSpec == ExportInit /\ [][ExportNext]_vars

\* ------------------------------------------- extraction, run again
\* The two extractors that pass their findings through a set:
\* _extract_property_links returns list(set(links))[:15] and
\* _detect_languages returns list(set(languages)). The links and the
\* languages are strings, whose hash, and with it the iteration order of the
\* set, depends on the hash seed the interpreter draws at start-up.
\* A page has the distinct property links 1..links and the languages langs,
\* both numbered in document order.
link_cap == 15
Seeds == {0, 1}
upstream == <<batchvars, proxyvars, extractvars, exportvars>>

Markups == [links : 0..MaxLinks, langs : SUBSET (1..MaxLangs)]

RECURSIVE Ascending(_)
Ascending(S) ==
    IF S = {} THEN <<>>
    ELSE LET m == CHOOSE x \in S : \A y \in S : x <= y
         IN  <<m>> \o Ascending(S \ {m})
Reverse(q) == [i \in 1..Len(q) |-> q[Len(q) + 1 - i]]

\* list(set(...)) in an interpreter started with the seed: two of the orders
\* a seed can give
SetOrder(S, seed) == IF seed = 0 THEN Ascending(S) ELSE Reverse(Ascending(S))

Take(q, n) == SubSeq(q, 1, IF Len(q) < n THEN Len(q) ELSE n)

ExtractPropertyLinks(m, seed) == Take(SetOrder(1..m.links, seed), link_cap)
DetectLanguages(m, seed) == SetOrder(m.langs, seed)

\* the two fields as one extraction returns them
Extraction(m, seed) ==
    [seed |-> seed,
     property_links |-> ExtractPropertyLinks(m, seed),
     languages |-> DetectLanguages(m, seed)]

UpstreamIdle == BatchIdle /\ ProxyIdle /\ ExtractIdle /\ ExportIdle
DetOthersIdle == UpstreamIdle /\ FrameIdle /\ DiscIdle /\ AppIdle /\ ScoreIdle
detothers == <<upstream, framevars, discvars, appvars, scorevars>>

DetInit ==
    /\ DetOthersIdle
    /\ markup \in Markups
    /\ runs = <<>>

\* the first extraction, in an interpreter with some seed
ExtractFirst(seed) ==
    /\ runs = <<>>
    /\ runs' = <<Extraction(markup, seed)>>
    /\ UNCHANGED <<detothers, markup>>

\* the page is extracted again by the same process
ExtractAgain ==
    /\ Len(runs) = 1
    /\ runs' = Append(runs, Extraction(markup, runs[1].seed))
    /\ UNCHANGED <<detothers, markup>>

\* the page is extracted again by another run of the program
ExtractRerun(seed) ==
    /\ Len(runs) = 1
    /\ runs' = Append(runs, Extraction(markup, seed))
    /\ UNCHANGED <<detothers, markup>>

DetNext ==
    \/ \E seed \in Seeds : ExtractFirst(seed)
    \/ ExtractAgain
    \/ \E seed \in Seeds : ExtractRerun(seed)

DetSpec == DetInit /\ [][DetNext]_vars

\* ------------------------------------------ the downstream transforms
\* country_categorization.py and company_personal_info_enrichment.py work on
\* the data frame read from customer_leads.csv. A row maps the columns to
\* their cells; an empty cell of the file is read as NaN.
FrameOthersIdle == UpstreamIdle /\ DetIdle /\ DiscIdle /\ AppIdle /\ ScoreIdle
frameothers == <<upstream, detvars, discvars, appvars, scorevars>>

NaN == "NaN"

\* str.strip() and str.upper() on the cells sampled below
Strip(v) == IF v = " " THEN "" ELSE v
Upper(v) == CASE v = "Spain" -> "SPAIN"
              [] v = "Brazil" -> "BRAZIL"
              [] v = NaN -> "NAN"
              [] OTHER -> v

\* three entries of country_mapping, in the order of the dict
country_mapping ==
    <<[name |-> "United States", keywords |-> {"usa", "california"}, domains |-> {".us"}],
      [name |-> "Spain", keywords |-> {"spain", "madrid"}, domains |-> {".es"}],
      [name |-> "France", keywords |-> {"france", "paris"}, domains |-> {".fr"}]>>

\* the keywords and domain endings of the table that occur in the
\* lower-cased text of a sampled cell
Found(text) == CASE text = "Gran Via 12, Madrid" -> {"madrid"}
                 [] text = "Paris Lofts" -> {"paris"}
                 [] text = "casa.fr" -> {".fr"}
                 [] OTHER -> {}

\* `existing.lower() in name.lower() or name.lower() in existing.lower()` on
\* the sampled cells: the empty string is in every name
ExistingMatches(existing, name) == existing = "" \/ existing = name

NoCountry == "None"

\* the loop over country_mapping.items() with its break: the first entry
\* whose name is in the set, if any
FirstInMapping(names) ==
    IF \E i \in 1..Len(country_mapping) : country_mapping[i].name \in names
    THEN country_mapping[CHOOSE i \in 1..Len(country_mapping) :
                            /\ country_mapping[i].name \in names
                            /\ \A j \in 1..(i - 1) : country_mapping[j].name \notin names].name
    ELSE NoCountry

MappingNames == {country_mapping[i].name : i \in 1..Len(country_mapping)}
EntryOf(name) == country_mapping[CHOOSE i \in 1..Len(country_mapping) : country_mapping[i].name = name]

Categorized(country, method, confidence) ==
    [country |-> country, method |-> method, confidence |-> confidence]
Uncategorized == Categorized(NoCountry, "none", "low")

\* Method 1: the existing Country cell
ByExistingCountry(row) ==
    IF row.Country # NaN /\ Upper(row.Country) \notin {"OTHER", "UNKNOWN", ""}
    THEN LET existing_country == Strip(row.Country)
             hit == FirstInMapping({n \in MappingNames : ExistingMatches(existing_country, n)})
         IN  IF hit # NoCountry THEN Categorized(hit, "existing_country", "high")
             ELSE IF Upper(existing_country) # "OTHER"
                  THEN Categorized(existing_country, "existing_country", "medium")
                  ELSE Uncategorized
    ELSE Uncategorized

\* Method 2: keywords in the address
ByAddress(row) ==
    IF row.Address # NaN /\ row.Address # ""
    THEN LET hit == FirstInMapping({n \in MappingNames :
                                      EntryOf(n).keywords \cap Found(row.Address) # {}})
         IN  IF hit # NoCountry THEN Categorized(hit, "address_keywords", "high")
             ELSE Uncategorized
    ELSE Uncategorized

\* Method 3: the ending of the domain
ByDomain(row) ==
    IF row.Domain # NaN /\ row.Domain # ""
    THEN LET hit == FirstInMapping({n \in MappingNames :
                                      EntryOf(n).domains \cap Found(row.Domain) # {}})
         IN  IF hit # NoCountry THEN Categorized(hit, "domain_analysis", "medium")
             ELSE Uncategorized
    ELSE Uncategorized

\* Method 4: keywords in the title
ByTitle(row) ==
    IF row.Title # NaN /\ row.Title # ""
    THEN LET hit == FirstInMapping({n \in MappingNames :
                                      EntryOf(n).keywords \cap Found(row.Title) # {}})
         IN  IF hit # NoCountry THEN Categorized(hit, "title_content", "medium")
             ELSE Uncategorized
    ELSE Uncategorized

\* a categorization that looks at the title before the domain
CategorizeRow_title_first(row) ==
    IF ByExistingCountry(row) # Uncategorized THEN ByExistingCountry(row)
    ELSE IF ByAddress(row) # Uncategorized THEN ByAddress(row)
    ELSE IF ByTitle(row) # Uncategorized THEN ByTitle(row)
    ELSE IF ByDomain(row) # Uncategorized THEN ByDomain(row)
    ELSE Categorized("OTHER", "fallback_other", "low")

\* the body of the loop over the rows: each method runs `if not country`
CategorizeRow(row) ==
    IF ByExistingCountry(row) # Uncategorized THEN ByExistingCountry(row)
    ELSE IF ByAddress(row) # Uncategorized THEN ByAddress(row)
    ELSE IF ByDomain(row) # Uncategorized THEN ByDomain(row)
    ELSE IF ByTitle(row) # Uncategorized THEN ByTitle(row)
    ELSE Categorized("OTHER", "fallback_other", "low")

\* the cells written to the copy of the row
WithCategory(row, c) ==
    row @@ [Categorized_Country |-> c.country, Categorization_Method |-> c.method,
            Categorization_Confidence |-> c.confidence]

Methods == {"existing_country", "address_keywords", "domain_analysis", "title_content",
            "fallback_other"}
InitialStats(n) ==
    [total_processed |-> n, successfully_categorized |-> 0, methods |-> [m \in Methods |-> 0]]

\* `categorization_stats['methods'][method] += 1` and the count of the
\* countries other than 'OTHER'
StatsAfter(stats, c) ==
    [stats EXCEPT !.methods[c.method] = @ + 1,
                  !.successfully_categorized = IF c.country # "OTHER" THEN @ + 1 ELSE @]

\* the statistics after the rows 1..i
RECURSIVE StatsUpTo(_, _)
StatsUpTo(rws, i) ==
    IF i = 0 THEN InitialStats(Len(rws))
    ELSE StatsAfter(StatsUpTo(rws, i - 1), CategorizeRow(rws[i]))

\* enhanced_country_categorization(df): (df_categorized, categorization_stats)
enhanced_country_categorization(df) ==
    [fn |-> "enhanced_country_categorization",
     df_categorized |-> [i \in 1..Len(df.rows) |-> WithCategory(df.rows[i], CategorizeRow(df.rows[i]))],
     stats |-> StatsUpTo(df.rows, Len(df.rows))]

\* `pd.notna(cell) and str(cell).strip()`
Filled(v) == v # NaN /\ Strip(v) # ""

\* `cell and cell.lower() not in ['', 'nan', 'none']` on the stripped text
SocialFilled(v) == Strip(v) \notin {"", NaN, "none"}

\* a score whose property tiers run the wrong way
calculate_lead_quality_score_tiers(row) ==
    (IF Filled(row.Email) THEN 30 ELSE 0)
    + (IF Filled(row.Phone) THEN 25 ELSE 0)
    + (IF Filled(row.Address) THEN 20 ELSE 0)
    + (IF row.Property_Count > 5 THEN 5
       ELSE IF row.Property_Count > 1 THEN 10
       ELSE IF row.Property_Count > 0 THEN 15 ELSE 0)
    + (IF SocialFilled(row.Instagram) THEN 10 ELSE 0)
    + (IF SocialFilled(row.Facebook) THEN 10 ELSE 0)
    + (IF SocialFilled(row.Property_Links) THEN 15 ELSE 0)
    + (IF Upper(Strip(row.Country)) \notin {"OTHER", "UNKNOWN", "", "NAN"} THEN 5 ELSE 0)

calculate_lead_quality_score(row) ==
    (IF Filled(row.Email) THEN 30 ELSE 0)
    + (IF Filled(row.Phone) THEN 25 ELSE 0)
    + (IF Filled(row.Address) THEN 20 ELSE 0)
    + (IF row.Property_Count > 5 THEN 15
       ELSE IF row.Property_Count > 1 THEN 10
       ELSE IF row.Property_Count > 0 THEN 5 ELSE 0)
    + (IF SocialFilled(row.Instagram) THEN 10 ELSE 0)
    + (IF SocialFilled(row.Facebook) THEN 10 ELSE 0)
    + (IF SocialFilled(row.Property_Links) THEN 15 ELSE 0)
    + (IF Upper(Strip(row.Country)) \notin {"OTHER", "UNKNOWN", "", "NAN"} THEN 5 ELSE 0)

assign_lead_grade(score) ==
    IF score >= 80 THEN "A+"
    ELSE IF score >= 70 THEN "A"
    ELSE IF score >= 60 THEN "B+"
    ELSE IF score >= 50 THEN "B"
    ELSE IF score >= 40 THEN "C+"
    ELSE IF score >= 30 THEN "C"
    ELSE "D"

\* df['Lead_Quality_Score'] = df.apply(calculate_lead_quality_score, axis=1):
\* the column is added to the frame that was passed in
WithScores(rws) ==
    [i \in 1..Len(rws) |-> rws[i] @@ [Lead_Quality_Score |-> calculate_lead_quality_score(rws[i])]]

\* a sequence without its i-th element
Without(q, i) == SubSeq(q, 1, i - 1) \o SubSeq(q, i + 1, Len(q))

\* df.sort_values('Lead_Quality_Score', ascending=False), ties in frame order
RECURSIVE SortByScore(_)
SortByScore(rws) ==
    IF rws = <<>> THEN <<>>
    ELSE LET i == CHOOSE k \in 1..Len(rws) :
                     /\ \A j \in 1..Len(rws) : rws[j].Lead_Quality_Score <= rws[k].Lead_Quality_Score
                     /\ \A j \in 1..(k - 1) : rws[j].Lead_Quality_Score < rws[k].Lead_Quality_Score
         IN  <<rws[i]>> \o SortByScore(Without(rws, i))

\* some of the columns of an enriched record
EnrichedRow(row) ==
    [Lead_Quality_Score |-> row.Lead_Quality_Score,
     Lead_Grade |-> assign_lead_grade(row.Lead_Quality_Score),
     Domain |-> row.Domain, Email |-> row.Email]

\* enrich_top_records(df, max_records): what it returns, the frame being
\* WithScores(df.rows) afterwards unless the frame is empty
enrich_top_records(df, max_records) ==
    IF df.rows = <<>> THEN [fn |-> "enrich_top_records", enriched |-> NaN]
    ELSE LET top_records == Take(SortByScore(WithScores(df.rows)), max_records)
         IN  [fn |-> "enrich_top_records",
              enriched |-> [i \in 1..Len(top_records) |-> EnrichedRow(top_records[i])]]

\* the number of leads the app and the script enrich
top_n == 5

\* the score enrich_company_data gives a scraped record
AppScore(record) ==
    (IF record.email # "" THEN 30 ELSE 0)
    + (IF record.phone # "" THEN 25 ELSE 0)
    + (IF record.property_count > 0 THEN 20 ELSE 0)
    + (IF record.social_media # {} THEN 15 ELSE 0)
    + (IF record.contact_form THEN 10 ELSE 0)
AppGrade(score) ==
    IF score >= 70 THEN "A" ELSE IF score >= 50 THEN "B" ELSE IF score >= 30 THEN "C" ELSE "D"

\* record.copy() with the enrichment keys set on the copy
EnrichedCopy(record) ==
    record @@ [lead_quality_score |-> AppScore(record), lead_grade |-> AppGrade(AppScore(record))]

\* the loop over records[:max_records], skipping records with an 'error'
RECURSIVE EnrichEach(_)
EnrichEach(recs) ==
    IF recs = <<>> THEN <<>>
    ELSE IF HasError(Head(recs)) THEN EnrichEach(Tail(recs))
    ELSE <<EnrichedCopy(Head(recs))>> \o EnrichEach(Tail(recs))

enrich_company_data(records, max_records) ==
    [fn |-> "enrich_company_data", enriched |-> EnrichEach(Take(records.rows, max_records))]

\* Rows of customer_leads.csv that differ in what the categorization reads,
\* and one that differs in its score.
CountryRows ==
    [Country : {NaN, "OTHER", "Spain", "Brazil", " "}, Address : {NaN, "Gran Via 12, Madrid"},
     Domain : {"villa.lodgify.com", "casa.fr"}, Title : {"Home", "Paris Lofts"},
     Email : {NaN}, Phone : {NaN}, Property_Count : {1}, Instagram : {NaN},
     Facebook : {NaN}, Property_Links : {NaN}]
LeadRow ==
    [Country |-> NaN, Address |-> NaN, Domain |-> "villa.lodgify.com", Title |-> "Home",
     Email |-> "sales@b.io", Phone |-> "+34 600 000 000", Property_Count |-> 6,
     Instagram |-> NaN, Facebook |-> NaN, Property_Links |-> NaN]
FrameRows == CountryRows \cup {LeadRow}
DataFrames == {[kind |-> "df", rows |-> r] : r \in UNION {[1..k -> FrameRows] : k \in 0..MaxRows}}

\* Scraped records as the app holds them: a failed one and three leads.
AppErrorRecord == CreateErrorRecord("https://b.lodgify.com", "All scraping methods failed")
AppRecord(email, phone, count) ==
    [url |-> "https://a.lodgify.com", domain |-> "a.lodgify.com", title |-> "Sunny Villas",
     email |-> email, phone |-> phone, property_count |-> count, social_media |-> {},
     contact_form |-> FALSE, status |-> "success"]
AppRecords ==
    {AppErrorRecord, AppRecord("", "", 0), AppRecord("sales@b.io", "", 0),
     AppRecord("sales@b.io", "+34 600 000 000", 2)}
RecordLists ==
    {[kind |-> "records", rows |-> r] : r \in UNION {[1..k -> AppRecords] : k \in 0..MaxRecords}}

TransformInit ==
    /\ FrameOthersIdle
    /\ given \in DataFrames \cup RecordLists
    /\ frame = given
    /\ returned = [fn |-> "none"]

\* df_categorized = df.copy(): the frame passed in is left alone
Categorize ==
    /\ returned.fn = "none"
    /\ frame.kind = "df"
    /\ returned' = enhanced_country_categorization(frame)
    /\ UNCHANGED <<frameothers, given, frame>>

EnrichTop ==
    /\ returned.fn = "none"
    /\ frame.kind = "df"
    /\ returned' = enrich_top_records(frame, top_n)
    /\ frame' = IF frame.rows = <<>> THEN frame
                ELSE [frame EXCEPT !.rows = WithScores(frame.rows)]
    /\ UNCHANGED <<frameothers, given>>

EnrichCompany ==
    /\ returned.fn = "none"
    /\ frame.kind = "records"
    /\ returned' = enrich_company_data(frame, top_n)
    /\ UNCHANGED <<frameothers, given, frame>>

TransformNext ==
    \/ Categorize
    \/ EnrichTop
    \/ EnrichCompany

TransformSpec == TransformInit /\ [][TransformNext]_vars

\* ------------------------------------------------------- discovery
\* find_subdomains of subdomain_fetch.py (the script) and of app.py (the app)
\* under the domain lodgify.com. A host name is written by its first label.
DiscOthersIdle == UpstreamIdle /\ DetIdle /\ FrameIdle /\ AppIdle /\ ScoreIdle
discothers == <<upstream, detvars, framevars, appvars, scorevars>>

\* the set `excluded` of _is_customer_subdomain
excluded ==
    {"www", "api", "app", "admin", "blog", "help", "support", "docs", "cdn", "assets",
     "static", "mail", "ftp", "dev", "test", "staging", "portal", "dashboard", "auth",
     "login", "billing", "payments", "feedback", "roadmap", "status", "updates",
     "academy", "platform"}

\* first labels the outside sources may list
Labels == {"www", "Admin", "api", "sunnyvilla", "ab"}

\* str.lower() on the labels
LowerName(l) == IF l = "Admin" THEN "admin" ELSE l

\* labels of fewer than 3 or more than 50 characters
BadLength == {"ab"}

_is_customer_subdomain(l) == LowerName(l) \notin excluded /\ l \notin BadLength

\* words of the script's wordlist whose host may answer
wordlist == {"villa", "beach"}

\* the names the app adds without asking anyone
common_subs ==
    {"app", "www", "admin", "api", "staging", "test", "dev", "demo", "blog", "portal",
     "booking", "reservations", "property"}
property_patterns ==
    {"villa", "apartment", "house", "hotel", "resort", "cabin", "beach", "mountain",
     "city", "rental"}

\* values of the max_results parameter: one that cuts the list and the default
MaxResults == {1, 200}

\* what a list of the set cut to max_results may hold
RECURSIVE SubsetsOfSize(_, _)
SubsetsOfSize(S, n) ==
    IF n = 0 THEN {{}}
    ELSE UNION {{T \cup {x} : T \in SubsetsOfSize(S \ {x}, n - 1)} : x \in S}

Cut(S, max_results) ==
    IF Cardinality(S) <= max_results THEN {S} ELSE SubsetsOfSize(S, max_results)

\* the script: the names of both sources pass _is_customer_subdomain, the
\* wordlist hits are added
ScriptCandidates(f, hits) ==
    {l \in f.ct : _is_customer_subdomain(l)} \cup {l \in f.dns : _is_customer_subdomain(l)}
    \cup hits

\* the app: the lower-cased names of the certificate logs, the common names
\* and the first ten property patterns
AppCandidates(f) ==
    {LowerName(l) : l \in f.ct} \cup common_subs \cup property_patterns

DiscInit ==
    /\ DiscOthersIdle
    /\ feeds \in [kind : {"feeds"}, ct : SUBSET Labels, dns : SUBSET {"api", "casa"}]
    /\ discovered = [finder |-> "none"]

\* subdomain_fetch.py: the candidates that validate, cut to max_results
FindScript(hits, valid, max_results) ==
    /\ discovered.finder = "none"
    /\ hits \subseteq wordlist
    /\ valid \subseteq ScriptCandidates(feeds, hits)
    /\ \E kept \in Cut(valid, max_results) :
          discovered' = [finder |-> "script", urls |-> kept]
    /\ UNCHANGED <<discothers, feeds>>

\* app.py: list(subdomains)[:max_results]
FindApp(max_results) ==
    /\ discovered.finder = "none"
    /\ \E kept \in Cut(AppCandidates(feeds), max_results) :
          discovered' = [finder |-> "app", urls |-> kept]
    /\ UNCHANGED <<discothers, feeds>>

DiscNext ==
    \/ \E hits \in SUBSET wordlist : \E valid \in SUBSET (Labels \cup {"casa"} \cup wordlist) :
          \E max_results \in MaxResults : FindScript(hits, valid, max_results)
    \/ \E max_results \in MaxResults : FindApp(max_results)

DiscSpec == DiscInit /\ [][DiscNext]_vars

\* ------------------------------------------------------- the app's session
\* main() of app.py is run from the top by Streamlit on every interaction;
\* st.session_state outlives the runs. A run that Streamlit stops or reruns
\* is ended by an exception that is not an Exception, raised at its next st call.
AppOthersIdle == UpstreamIdle /\ DetIdle /\ FrameIdle /\ DiscIdle /\ ScoreIdle
appothers == <<upstream, detvars, framevars, discvars, scorevars>>

\* the session_state value None of scraped_data
NoData == -1

\* init_session_state
AppInit ==
    /\ AppOthersIdle
    /\ scraping_status = "idle"
    /\ scraped_data = NoData
    /\ subdomains = 0
    /\ apppc = "waiting"
    /\ interactions = 0

\* a script run begins; the button is disabled while the status is running
BeginRun(scrape_clicked) ==
    /\ apppc = "waiting"
    /\ interactions < MaxInteractions
    /\ scrape_clicked => scraping_status # "running"
    /\ apppc' = IF scrape_clicked THEN "clicked" ELSE "tail"
    /\ interactions' = interactions + 1
    /\ UNCHANGED <<appothers, scraping_status, scraped_data, subdomains>>

\* 'New Scrape': clear the data and rerun
NewScrape ==
    /\ apppc = "clicked"
    /\ scraping_status = "completed"
    /\ scraped_data' = NoData
    /\ subdomains' = 0
    /\ scraping_status' = "idle"
    /\ apppc' = "rerun"
    /\ UNCHANGED <<appothers, interactions>>

\* 'Scrape'
StartScraping ==
    /\ apppc = "clicked"
    /\ scraping_status # "completed"
    /\ scraping_status' = "running"
    /\ apppc' = "discovering"
    /\ UNCHANGED <<appothers, scraped_data, subdomains, interactions>>

\* step 1: find_subdomains
Discover(n) ==
    /\ apppc = "discovering"
    /\ subdomains' = n
    /\ apppc' = "scraping"
    /\ UNCHANGED <<appothers, scraping_status, scraped_data, interactions>>

\* step 2: scrape_multiple(subdomains[:max_scrape]) returns; the data is
\* stored, then the status, and the run asks for a rerun
ScrapeDone(n) ==
    /\ apppc = "scraping"
    /\ n <= subdomains
    /\ scraped_data' = n
    /\ scraping_status' = "completed"
    /\ apppc' = "rerun"
    /\ UNCHANGED <<appothers, subdomains, interactions>>

\* except Exception
ScrapingFails ==
    /\ apppc \in {"discovering", "scraping"}
    /\ scraping_status' = "idle"
    /\ apppc' = "tail"
    /\ UNCHANGED <<appothers, scraped_data, subdomains, interactions>>

\* Streamlit ends the run during the scrape (stop, or a rerun for another
\* interaction): the exception passes `except Exception`
Interrupted ==
    /\ apppc \in {"discovering", "scraping"}
    /\ apppc' = "waiting"
    /\ UNCHANGED <<appothers, scraping_status, scraped_data, subdomains, interactions>>

\* st.rerun(): the run ends and the script starts again with no button clicked
Rerun ==
    /\ apppc = "rerun"
    /\ apppc' = "tail"
    /\ UNCHANGED <<appothers, scraping_status, scraped_data, subdomains, interactions>>

\* the rest of the page is drawn and the run ends
EndRun ==
    /\ apppc = "tail"
    /\ apppc' = "waiting"
    /\ UNCHANGED <<appothers, scraping_status, scraped_data, subdomains, interactions>>

AppNext ==
    \/ \E scrape_clicked \in BOOLEAN : BeginRun(scrape_clicked)
    \/ NewScrape
    \/ StartScraping
    \/ \E n \in 0..MaxUrls : Discover(n)
    \/ \E n \in 0..MaxUrls : ScrapeDone(n)
    \/ ScrapingFails
    \/ Interrupted
    \/ Rerun
    \/ EndRun

AppSpec == AppInit /\ [][AppNext]_vars

\* ------------------------------------------------------- lead scoring
\* calculate_lead_quality_score and assign_lead_grade on one row, and on the
\* row after a contact field is added or its property count is raised.
ScoreOthersIdle == UpstreamIdle /\ DetIdle /\ FrameIdle /\ DiscIdle /\ AppIdle
scoreothers == <<upstream, detvars, framevars, discvars, appvars>>

\* the columns the score reads as contact fields, with the values a cell may hold
ContactValues ==
    [Email |-> {NaN, " ", "sales@b.io"}, Phone |-> {NaN, "+34 600 000 000"},
     Address |-> {NaN, "Gran Via 12, Madrid"}, Instagram |-> {NaN, "https://instagram.com/b"},
     Facebook |-> {NaN, "https://facebook.com/b"}, Property_Links |-> {NaN, "https://b.io/villa-1"}]
ContactFields == DOMAIN ContactValues

ScoreRows ==
    [kind : {"row"}, Country : {NaN, "OTHER", "Spain"}, Address : ContactValues.Address,
     Email : ContactValues.Email, Phone : ContactValues.Phone, Property_Count : 0..MaxProps,
     Instagram : ContactValues.Instagram, Facebook : ContactValues.Facebook,
     Property_Links : ContactValues.Property_Links]

\* df.apply(calculate_lead_quality_score) and .apply(assign_lead_grade) on one row
Scored(row, was) ==
    [state |-> "scored", score |-> calculate_lead_quality_score(row),
     grade |-> assign_lead_grade(calculate_lead_quality_score(row)), was |-> was]

ScoreInit ==
    /\ ScoreOthersIdle
    /\ lead \in ScoreRows
    /\ scoring = [state |-> "none"]

ScoreLead ==
    /\ scoring.state = "none"
    /\ scoring' = Scored(lead, calculate_lead_quality_score(lead))
    /\ UNCHANGED <<scoreothers, lead>>

\* an empty contact cell of the row gets a value, and the row is scored again
AddContact(field, v) ==
    /\ scoring.state = "scored"
    /\ lead[field] \in {NaN, " "}
    /\ v \in ContactValues[field]
    /\ v # lead[field]
    /\ lead' = [lead EXCEPT ![field] = v]
    /\ scoring' = Scored(lead', scoring.score)
    /\ UNCHANGED scoreothers

\* the property count of the row is raised, and the row is scored again
RaiseCount(n) ==
    /\ scoring.state = "scored"
    /\ n > lead.Property_Count
    /\ lead' = [lead EXCEPT !.Property_Count = n]
    /\ scoring' = Scored(lead', scoring.score)
    /\ UNCHANGED scoreothers

ScoreNext ==
    \/ ScoreLead
    \/ \E field \in ContactFields : \E v \in ContactValues[field] : AddContact(field, v)
    \/ \E n \in 1..MaxProps : RaiseCount(n)

ScoreSpec == ScoreInit /\ [][ScoreNext]_vars

\* ============================================================ properties
UrlsOf(recs) == [i \in 1..Len(recs) |-> recs[i].url]
Count(seq, x) == Cardinality({i \in 1..Len(seq) : seq[i] = x})
Ended == mainpc \in {"returned", "raised"}
ActivePcs == {"delay", "inflight", "content", "backoff", "fetched"}

\* C1: whenever scrape_multiple(urls, k) has ended, it has returned exactly
\* len(urls) records whose 'url' fields are, as a multiset, the input URLs.
C1_OneRecordPerUrl ==
    Ended => /\ mainpc = "returned"
             /\ Len(results) = Len(urls)
             /\ \A x \in Urls : Count(UrlsOf(results), x) = Count(urls, x)

\* C2: no exception escapes scrape_subdomain or scrape_multiple: every unit
\* that is done holds a record, and scrape_multiple never unwinds or raises.
C2_NoExceptionEscapes ==
    /\ \A u \in Units : pc[u] = "done" => future[u].kind = "result"
    /\ mainpc \notin {"unwinding", "raised"}

\* C3: a fetch whose attempts were all answered with HTTP 429 ends after
\* exactly max_retries attempts, and no fetch ever makes more than max_retries,
\* on the requests path and on the Playwright path alike.
C3_RetryExhaustion ==
    \A u \in Units :
        /\ attempts[u] <= max_retries
        /\ (pc[u] = "fetched" /\ same[u] = Status(429)) => attempts[u] = max_retries

C3_Witness ==
    \E u \in Units : pc[u] = "fetched" /\ same[u] = Status(429)
                     /\ attempts[u] = max_retries /\ sleeps[u] = max_retries - 1

\* C4: a unit whose attempts were all answered with 429 ends with a record of
\* status "blocked" (so that it differs from the record of a network failure).
C4_BlockedStatus ==
    [][\A u \in Units :
          (pc[u] = "fetched" /\ pc'[u] = "done" /\ same[u] = Status(429))
          => (future'[u].kind = "result" /\ future'[u].value.status = "blocked")]_vars

\* C5 as claimed: a fetch that ended without markup after a non-200 response
\* other than 402, a missing response or an exception has used all max_retries
\* attempts.
C5_AllNon200Retried ==
    \A u \in Units :
        (pc[u] = "fetched" /\ ~html[u] /\ last[u] # Status(402))
        => attempts[u] = max_retries

\* C5 amended: on the Playwright path every failed attempt is retried while
\* attempts remain; on the requests path only an exception or a status in
\* 403, 429, 500, 502, 503 is: a backoff sleep follows nothing else, and a fetch
\* gives up after such an outcome only when max_retries attempts were made.
ReqRetried(o) == o.kind = "exc" \/ (o.kind = "status" /\ o.code \in {403, 429, 500, 502, 503})

C5_RetryPolicy ==
    \A u \in Units :
        /\ pc[u] = "backoff" => /\ attempts[u] < max_retries
                                /\ (use_playwright \/ ReqRetried(last[u]))
        /\ (pc[u] = "fetched" /\ ~html[u] /\ (use_playwright \/ ReqRetried(last[u])))
           => attempts[u] = max_retries

C5_Witness ==
    \E u \in Units : /\ ~use_playwright
                     /\ pc[u] = "fetched"
                     /\ last[u] = Status(404)
                     /\ attempts[u] = 1

\* C6: a unit whose fetch ended on a payment-required (402) response ends with
\* a record of status 'partial_success'.
C6_PartialSuccess ==
    [][\A u \in Units :
          (pc[u] = "fetched" /\ pc'[u] = "done" /\ last[u] = Status(402))
          => (future'[u].kind = "result" /\ future'[u].value.status = "partial_success")]_vars

\* C7: a unit that hangs does not stop the batch: when a unit hangs and nothing
\* else can run, scrape_multiple has returned one record per input URL.
C7_HungUnitAbandoned ==
    ((\E u \in Units : pc[u] = "hung") /\ ~ENABLED Next)
    => (mainpc = "returned" /\ Len(results) = Len(urls))

\* C8: at most max_workers units are in progress at any moment, and a unit in
\* progress can take its next step whatever state the other units are in.
C8_BoundedPool ==
    /\ Cardinality(Running) <= max_workers
    /\ \A u \in Units : pc[u] \in ActivePcs => ENABLED UnitStep(u)

C8_Witness ==
    /\ Cardinality(Running) = max_workers
    /\ \E u \in Units : pc[u] = "queued"
    /\ \E u \in Units : pc[u] = "inflight"

\* C9: the attempts of a unit are sequential: at most one network call of the
\* unit is unresolved, every attempt but the latest has resolved, and each
\* resolved attempt that was retried was followed by one backoff sleep before
\* the next began.
C9_SequentialAttempts ==
    \A u \in Units :
        /\ inflight[u] \in {0, 1}
        /\ inflight[u] = 1 <=> pc[u] \in {"inflight", "hung"}
        /\ pc[u] \in {"inflight", "hung", "content", "fetched"}
           => (attempts[u] = attempt[u] + 1 /\ sleeps[u] = attempt[u])
        /\ pc[u] = "backoff"
           => (attempts[u] = attempt[u] + 1 /\ sleeps[u] = attempt[u] + 1)

C9_Witness ==
    \E u, v \in Units : /\ u # v
                        /\ pc[u] = "inflight" /\ attempts[u] = 2 /\ sleeps[u] = 1
                        /\ pc[v] = "inflight"

\* C10: a browser is open only while an attempt of the Playwright path is in
\* progress: none is open during a backoff sleep, after the fetch has returned,
\* or on the requests path.
C10_BrowserClosed ==
    \A u \in Units :
        browser[u] => (use_playwright /\ pc[u] \in {"inflight", "content", "hung"})

C10_Witness ==
    \E u \in Units : /\ use_playwright
                     /\ pc[u] \in {"backoff", "fetched"}
                     /\ last[u] = Exc
                     /\ ~browser[u]

\* C11: the rotation is round-robin under concurrent calls: in the order in
\* which the calls pick their proxy, any len(proxies) consecutive picks hand
\* out each configured proxy exactly once (none twice, none skipped).
C11_RoundRobin ==
    LET n == Len(proxies)
    IN  n > 0 => \A i \in 1..(Len(handed) - n + 1) :
                    {handed[j] : j \in i..(i + n - 1)} = {proxies[k] : k \in 1..n}

\* every record a unit has produced, collected or not
AllRecords ==
    {results[i] : i \in 1..Len(results)}
    \cup {future[u].value : u \in {v \in Units : future[v].kind = "result"}}

NumWithError(recs) == Cardinality({i \in 1..Len(recs) : HasError(recs[i])})
NumWithStatus(recs, st) == Cardinality({i \in 1..Len(recs) : recs[i].status = st})

\* C12: every record has a status in success, partial_success, failed and has
\* an 'error' field exactly when the status is 'failed'; so in the result list
\* the records with an 'error' are as many as those of status 'failed', and
\* successful plus failed records make up the list.
C12_StatusAndError ==
    /\ \A r \in AllRecords :
          /\ r.status \in {"success", "partial_success", "failed"}
          /\ HasError(r) <=> r.status = "failed"
    /\ NumWithError(results) = NumWithStatus(results, "failed")
    /\ NumWithStatus(results, "success") + NumWithStatus(results, "failed") = Len(results)

C12_Witness ==
    /\ mainpc = "returned"
    /\ \E i, j \in 1..Len(results) :
          /\ results[i].status = "failed" /\ HasError(results[i])
          /\ results[j].status = "success" /\ ~HasError(results[j])

\* C13: every record carries a belonging label in customer, platform_internal,
\* and a record of status 'failed' carries platform_internal.
C13_Belonging ==
    \A r \in AllRecords :
        /\ "belonging" \in DOMAIN r
        /\ r.belonging \in {"customer", "platform_internal"}
        /\ r.status = "failed" => r.belonging = "platform_internal"

Parsed == rec # NoRec
ParsedOk == Parsed /\ rec.status = "success"

\* titles of the platform's own pages (error pages, help centre)
PlatformSignatureTitles == {"404 Not Found"}

\* C14: a record whose title matches a platform-internal signature is
\* labelled platform_internal, whatever its email and inventory count are.
C14_PlatformSignatureFirst ==
    (Parsed /\ page.title \in PlatformSignatureTitles)
        => ("belonging" \in DOMAIN rec /\ rec.belonging = "platform_internal")

AddrsOf(p) == {p.nodes[i].addr : i \in 1..Len(p.nodes)}
Denylisted(addr) == \E tok \in spam_tokens : Contains(Lower(addr), tok)

\* C16: the extracted email is absent or an address of the page that holds
\* no denylist token, and it is absent when every address of the page is
\* denylisted.
C16_NoDenylistedEmail ==
    ParsedOk =>
        /\ rec.email # <<>> => /\ rec.email \in AddrsOf(page)
                               /\ \A tok \in spam_tokens : ~Contains(Lower(rec.email), tok)
        /\ (\A addr \in AddrsOf(page) : Denylisted(addr)) => rec.email = <<>>

C16_Witness ==
    /\ ParsedOk
    /\ Len(page.nodes) = 2
    /\ NoReply \in AddrsOf(page)
    /\ \A addr \in AddrsOf(page) : Denylisted(addr)
    /\ rec.email = <<>>

MailtoAddrs(p) ==
    LET anchors == SelectSeq(p.nodes, LAMBDA n : n.kind = "mailto" /\ ~Denylisted(n.addr))
    IN  [i \in 1..Len(anchors) |-> anchors[i].addr]

\* C17: when the page has a mailto anchor with an address that is not
\* denylisted, the extracted email is that address, also when another valid
\* address stands in the visible text.
C17_MailtoOutranksText ==
    (ParsedOk /\ MailtoAddrs(page) # <<>>) => rec.email = MailtoAddrs(page)[1]

NoPositiveCount(p) == \A i \in 1..3 : ~(strategies(p)[i] > 0)

\* C18: when no inventory strategy gives a positive count, the inventory
\* count is 1 if the page has a booking keyword and 0 only if it has none.
C18_BookingDefault ==
    (ParsedOk /\ NoPositiveCount(page))
        => rec.property_count = (IF page.booking THEN 1 ELSE 0)

\* C19: the inventory count is the result of the first of listing elements,
\* count phrase, pagination total that is positive; a strategy giving 0 or
\* raising is skipped and a later one never overrides an earlier positive one;
\* the count is 0 when none is positive.
C19_FirstPositiveStrategy ==
    ParsedOk =>
        rec.property_count =
            (IF page.cards > 0 THEN page.cards
             ELSE IF page.phrase > 0 THEN page.phrase
             ELSE IF page.pagination > 0 THEN page.pagination
             ELSE 0)

C19_Witness ==
    /\ ParsedOk
    /\ page.cards = Raises
    /\ page.phrase = 0
    /\ page.pagination > 0
    /\ rec.property_count = page.pagination

\* C20: when the extractor of one field raises, the record is still emitted
\* with status 'success' and the other fields extracted.
C20_ExtractorErrorDegrades ==
    (Parsed /\ PropertyLinksRaise(page))
        => /\ rec.status = "success"
           /\ rec.title = page.title
           /\ rec.email = ExtractEmail(page)

Exported == rows # NoRows
SuccessCustomer(r) ==
    /\ "status" \in DOMAIN r /\ r.status = "success"
    /\ "belonging" \in DOMAIN r /\ r.belonging = "customer"
FromScraper(d) == \A i \in 1..Len(d) : d[i] \in ScraperRecords

\* C15: the export has one row for each record of status success and
\* belonging customer, in input order, and no other row; and a batch written
\* by scraper.py that holds a successfully scraped customer site gives a
\* non-empty export.
C15_ExportKeepsSuccessCustomers ==
    Exported =>
        /\ LET want == SelectSeq(data, SuccessCustomer)
           IN  /\ Len(rows) = Len(want)
               /\ \A i \in 1..Len(want) : rows[i].URL = want[i].url
        /\ (FromScraper(data) /\ \E i \in 1..Len(data) : data[i].status = "success")
              => rows # <<>>

\* C22: for a batch of n URLs exactly n progress reports are made, the i-th
\* is i/n, so they increase strictly up to 1, none is made before its unit's
\* result was collected, and no report divides by zero.
C22_ProgressAfterEachUnit ==
    /\ \A i \in 1..Len(progress) :
          /\ progress[i].done = i
          /\ progress[i].total = Len(urls)
          /\ progress[i].total > 0
    /\ Len(progress) <= Cardinality(collected)
    /\ Ended => Len(progress) = Len(urls)

\* C25: the backoff sleeps of a fetch have the bases 1, 2, 4, ... in this
\* order, each with a jitter in [1, 3]; a sleep follows every failed attempt
\* but the last, so a fetch of max_retries failed attempts has slept
\* max_retries - 1 times, and no sleep follows the final attempt or a
\* successful one.
C25_BackoffSchedule ==
    \A u \in Units :
        /\ Len(delays[u]) = sleeps[u]
        /\ \A i \in 1..Len(delays[u]) : delays[u][i] = 2 ^ (i - 1)
        /\ \A i \in 2..Len(delays[u]) : delays[u][i - 1] < delays[u][i]
        /\ IF pc[u] = "backoff"
           THEN /\ jitter[u] >= 1 /\ jitter[u] <= 3
                /\ attempt[u] < max_retries - 1
                /\ sleeps[u] = attempt[u] + 1
                /\ ~(last[u].kind = "status" /\ last[u].code = 200 /\ html[u])
           ELSE jitter[u] = 0
        /\ pc[u] = "fetched" => sleeps[u] = attempts[u] - 1
        /\ (pc[u] = "fetched" /\ ~html[u] /\ attempts[u] = max_retries)
              => sleeps[u] = max_retries - 1

C25_Witness ==
    \E u \in Units :
        /\ pc[u] = "fetched"
        /\ ~html[u]
        /\ attempts[u] = max_retries
        /\ delays[u] = <<1, 2>>

\* C26: with Playwright enabled, the record of a unit whose Playwright fetch
\* failed on all its attempts is produced only after the requests path was
\* attempted for the same URL.
C26_FallbackToRequests ==
    [][\A u \in Units :
          (use_playwright /\ pc[u] = "fetched" /\ ~html[u] /\ pc'[u] = "done")
              => "requests" \in tried[u]]_vars

\* C21: two extractions of the same markup, in the same or in different runs
\* of the program, return the same property links in the same order (the same
\* 15 when the page has more) and the same languages in the same order.
C21_ExtractionDeterministic ==
    Len(runs) = 2 =>
        /\ runs[1].property_links = runs[2].property_links
        /\ runs[1].languages = runs[2].languages

\* C23: a downstream transform leaves the records or the data frame it
\* received unchanged: no field changed, no field or column added.
C23_InputsNotMutated ==
    returned.fn # "none" => frame = given

\* C27: enrich_company_data(records, 5) returns min(5, number of records
\* without an error) enriched records, and no record without an error that
\* was left out has a higher lead_quality_score than one that was selected.
C27_TopFiveAreBest ==
    returned.fn = "enrich_company_data" =>
        LET ok == SelectSeq(given.rows, LAMBDA r : ~HasError(r))
            out == returned.enriched
            Better(q, x) == Cardinality({i \in 1..Len(q) : AppScore(q[i]) > x})
        IN  /\ Len(out) = (IF Len(ok) < 5 THEN Len(ok) ELSE 5)
            /\ \A k \in 1..Len(out) :
                  Better(ok, out[k].lead_quality_score) = Better(out, out[k].lead_quality_score)

CountWhere(q, col, v) == Cardinality({i \in 1..Len(q) : q[i][col] = v})

\* C29: every row gets one country and one method, the method being the first
\* of existing country, address keywords, domain extension, title keywords
\* that matches, else the fallback OTHER; the per-method counters sum to
\* total_processed, successfully_categorized counts the rows whose
\* Categorized_Country is not 'OTHER' and fallback_other those labelled 'OTHER'.
C29_CategorizationCounts ==
    returned.fn = "enhanced_country_categorization" =>
        LET out == returned.df_categorized
            st == returned.stats
        IN  /\ Len(out) = Len(given.rows)
            /\ \A i \in 1..Len(out) :
                  LET hits == <<ByExistingCountry(given.rows[i]), ByAddress(given.rows[i]),
                                ByDomain(given.rows[i]), ByTitle(given.rows[i])>>
                      first == {k \in 1..4 : hits[k] # Uncategorized
                                             /\ \A j \in 1..(k - 1) : hits[j] = Uncategorized}
                  IN  IF first = {}
                      THEN /\ out[i].Categorization_Method = "fallback_other"
                           /\ out[i].Categorized_Country = "OTHER"
                      ELSE \A k \in first :
                              /\ out[i].Categorization_Method = hits[k].method
                              /\ out[i].Categorized_Country = hits[k].country
                              /\ out[i].Categorized_Country # "OTHER"
            /\ st.total_processed = Len(given.rows)
            /\ st.methods["existing_country"] + st.methods["address_keywords"]
                 + st.methods["domain_analysis"] + st.methods["title_content"]
                 + st.methods["fallback_other"] = st.total_processed
            /\ \A m \in Methods : st.methods[m] = CountWhere(out, "Categorization_Method", m)
            /\ st.successfully_categorized
                 = Len(out) - CountWhere(out, "Categorized_Country", "OTHER")
            /\ st.methods["fallback_other"] = CountWhere(out, "Categorized_Country", "OTHER")

C29_Witness ==
    /\ returned.fn = "enhanced_country_categorization"
    /\ Len(given.rows) = 2
    /\ \E i, j \in 1..2 :
          /\ returned.df_categorized[i].Categorization_Method = "domain_analysis"
          /\ ByTitle(given.rows[i]) # Uncategorized
          /\ returned.df_categorized[j].Categorization_Method = "fallback_other"
    /\ returned.stats.successfully_categorized = 1

\* C24: no URL that find_subdomains returns has a reserved name as its first
\* host label, whichever method found it.
C24_NoReservedSubdomain ==
    discovered.finder # "none" =>
        \A l \in discovered.urls : LowerName(l) \notin excluded

\* C28: scraping_status is one of idle, running, completed, and no script run
\* ends, and so none starts, with the status running.
C28_RunningIsTransient ==
    /\ scraping_status \in {"idle", "running", "completed"}
    /\ apppc = "waiting" => scraping_status # "running"

\* the grades from the lowest to the highest
GradeOrder == <<"D", "C", "C+", "B", "B+", "A", "A+">>
GradeRank(g) == CHOOSE i \in 1..Len(GradeOrder) : GradeOrder[i] = g

\* C30: every score lies in 0..130 and has exactly one grade of the seven, no
\* lower score has a higher grade, and after a contact field is added or the
\* property count is raised the score of the row is not lower than before.
C30_GradingTotalMonotone ==
    scoring.state = "scored" =>
        /\ scoring.score \in 0..130
        /\ Cardinality({i \in 1..Len(GradeOrder) : GradeOrder[i] = scoring.grade}) = 1
        /\ \A lower \in 0..scoring.score :
              GradeRank(assign_lead_grade(lower)) <= GradeRank(scoring.grade)
        /\ scoring.was <= scoring.score
C30_Witness ==
    /\ scoring.state = "scored"
    /\ scoring.was < scoring.score
    /\ assign_lead_grade(scoring.was) # scoring.grade
    /\ scoring.grade = "A+"

====
